---------------------------- MODULE Spec2Model ----------------------------
(***************************************************************************)
(* A model of src/main.py: class WebCrawler (crawl, search).               *)
(*                                                                         *)
(* Strings.  A URL or an href is a sequence of tokens, each token standing *)
(* for a fixed run of characters ("https://example.com", ".evil.com",      *)
(* "/a", ...).  No token is a prefix of another, so str.startswith on the  *)
(* strings is the prefix relation on the token sequences.  A page text or  *)
(* a search keyword is a sequence of single characters.                    *)
(*                                                                         *)
(* crawl is recursive; each activation is a frame on the calling thread's  *)
(* stack, and a frame's pc names the line of main.py it is about to run.   *)
(***************************************************************************)
EXTENDS Integers, Sequences, FiniteSets, TLC

VARIABLES
    visited,    \* self.visited: the set of URL strings            (main.py:10)
    index,      \* self.index: an insertion-ordered dict, as a sequence of
                \* [url, text] entries with distinct urls           (main.py:9)
    stack,      \* per thread: the activations of crawl, innermost last
    call,       \* per thread: the top-level call, as its caller sees it
    fetched,    \* the calls of requests.get in order: the URL, and how it ended
    anchors,    \* the number of <a> elements on the pages fetched so far
    out,        \* stdout: the URLs of the "Error crawling ..." lines
    result      \* the outcome of the last search call

vars == <<visited, index, stack, call, fetched, anchors, out, result>>

---------------------------------------------------------------------------
(* Bounds of the model.                                                    *)

MaxLinks == 2       \* <a> elements on the pages of the site, all together
MaxCalls == 2       \* top-level crawl calls on one WebCrawler
MaxText == 3       \* characters of an indexed text (search)
MaxKeyword == 2     \* characters of a search keyword

---------------------------------------------------------------------------
(* URL strings.                                                            *)

Site == "https://example.com"
Evil == ".evil.com"
PathA == "/a"
PathB == "/b"
BadHref == "//["

\* Tokens that belong to the scheme-and-host part of a URL.
HostTokens == {Site, Evil}

NoBase == <<>>      \* base_url=None; None and "" are both falsy in `base_url or url`

RECURSIVE SeqsUpTo(_, _)
SeqsUpTo(S, n) ==
    IF n = 0 THEN {<<>>}
    ELSE LET shorter == SeqsUpTo(S, n - 1)
         IN  shorter \cup {Append(s, x) : s \in {q \in shorter : Len(q) = n - 1}, x \in S}

\* The href attributes a page may carry: none/empty, absolute, path-absolute,
\* one on another host that extends Site as a string, and one urljoin rejects.
Hrefs == { <<>>, <<Site>>, <<PathA>>, <<PathB>>, <<Site, Evil>>, <<BadHref>> }

LinkLists(n) == SeqsUpTo(Hrefs, n)

PageTexts == { <<>>, <<"a">> }

\* The arguments of the top-level calls.
StartUrls == { <<Site>>, <<Site, PathA>>, <<>> }
StartBases == { NoBase, <<Site>> }

Threads == {1, 2}

\* s.startswith(p)
startswith(s, p) == Len(p) <= Len(s) /\ SubSeq(s, 1, Len(p)) = p

\* The scheme and host of a URL: its leading host tokens.
RECURSIVE Origin(_)
Origin(u) ==
    IF u = <<>> \/ Head(u) \notin HostTokens THEN <<>>
    ELSE <<Head(u)>> \o Origin(Tail(u))

\* urljoin raises ValueError on an href whose netloc has an unmatched bracket.
urljoinRaises(href) == href # <<>> /\ Head(href) = BadHref

\* urljoin(base, href) for the hrefs above: an absolute href is the result;
\* a path-absolute href replaces the path of base.
urljoin(base, href) ==
    IF href = <<>> THEN base
    ELSE IF Head(href) \in HostTokens THEN href
    ELSE Origin(base) \o href

\* The containing page's URL as the base, whatever base_url is.
ScopeBasePage(f) == f.url

\* base_url or url
ScopeBase(f) == IF f.base = NoBase THEN f.url ELSE f.base

---------------------------------------------------------------------------
(* requests.get                                                            *)

\* requests.get(url) raises, or returns a response whatever its status is;
\* the response carries the text and, once parsed, the <a> elements' hrefs
\* (at most n of them).  An error page (non-2xx) has a body like any other.
Responses(n) ==
    [kind : {"response"}, status : {"2xx"}, text : PageTexts, links : LinkLists(n)]
    \cup [kind : {"response"}, status : {"non2xx"}, text : {<<"a">>}, links : LinkLists(n)]

Raises == [kind |-> "raise", status |-> "raised", text |-> <<>>, links |-> <<>>]

\* A URL without a scheme makes requests.get raise (MissingSchema).  The
\* pages served so far carry `anchors` <a> elements; the site has `site`.
Outcomes(url, site) ==
    IF url = <<>> THEN {Raises} ELSE Responses(site - anchors) \cup {Raises}

---------------------------------------------------------------------------
(* The index dict.                                                         *)

Keys(ix) == { ix[k].url : k \in 1..Len(ix) }

Lookup(ix, u) == (CHOOSE k \in 1..Len(ix) : ix[k].url = u)

TextOf(ix, u) == ix[Lookup(ix, u)].text

\* The dict built anew around the one entry: the earlier entries are gone.
StoreAlone(ix, u, t) == <<[url |-> u, text |-> t]>>

\* self.index[url] = text: an existing key keeps its place, a new one is last.
Store(ix, u, t) ==
    IF u \in Keys(ix)
    THEN [ix EXCEPT ![Lookup(ix, u)] = [url |-> u, text |-> t]]
    ELSE Append(ix, [url |-> u, text |-> t])

---------------------------------------------------------------------------
(* crawl                                                                   *)

Frame(url, base) == [url |-> url, base |-> base, pc |-> "check", links |-> <<>>, i |-> 0]

Running(t) == stack[t] # <<>>

Top(t) == stack[t][Len(stack[t])]

SetTop(t, f) == [stack EXCEPT ![t] = [@ EXCEPT ![Len(@)] = f]]

\* What leaves the except block: the handler prints and falls through, so
\* the activation returns normally.
HandlerOutcome(err) == "none"

\* The innermost activation of thread t ends, normally (exc = "none") or with
\* an exception exc.  The recursive call is inside the caller's try block, so
\* an exception lands in the caller's handler; out of the outermost activation
\* it reaches the caller of crawl.
Return(t, exc) ==
    LET rest == SubSeq(stack[t], 1, Len(stack[t]) - 1)
    IN  IF rest = <<>>
        THEN /\ stack' = [stack EXCEPT ![t] = rest]
             /\ call' = [call EXCEPT ![t].state =
                            IF exc = "none" THEN "returned" ELSE "raised"]
        ELSE /\ stack' = [stack EXCEPT ![t] =
                            IF exc = "none" THEN rest
                            ELSE [rest EXCEPT ![Len(rest)].pc = "except"]]
             /\ UNCHANGED call

\* crawler.crawl(url, base_url) called on thread t.
Call(t, url, base) ==
    /\ ~Running(t)
    /\ call[t].n < MaxCalls
    /\ stack' = [stack EXCEPT ![t] = <<Frame(url, base)>>]
    /\ call' = [call EXCEPT ![t] =
                    [url |-> url, base |-> base, state |-> "running", n |-> @.n + 1]]
    /\ UNCHANGED <<visited, index, fetched, anchors, out, result>>

\* The membership test left out: every call goes on to fetch.
AlreadyVisitedNever(url) == FALSE

\* url in self.visited
AlreadyVisited(url) == url \in visited

\* if url in self.visited: return
Check(t) ==
    /\ Running(t)
    /\ Top(t).pc = "check"
    /\ IF AlreadyVisited(Top(t).url)
       THEN Return(t, "none")
       ELSE stack' = SetTop(t, [Top(t) EXCEPT !.pc = "add"]) /\ UNCHANGED call
    /\ UNCHANGED <<visited, index, fetched, anchors, out, result>>

\* The add left out: the set never grows.
MarkedNothing(url) == visited

\* The set after self.visited.add(url).
Marked(url) == visited \cup {url}

\* self.visited.add(url)
Add(t) ==
    /\ Running(t)
    /\ Top(t).pc = "add"
    /\ visited' = Marked(Top(t).url)
    /\ stack' = SetTop(t, [Top(t) EXCEPT !.pc = "fetch"])
    /\ UNCHANGED <<index, call, fetched, anchors, out, result>>

\* The store guarded by `if text:`: a page without text gets no entry.
IndexedUnlessEmpty(ix, u, t) == IF t = <<>> THEN ix ELSE Store(ix, u, t)

\* The index after self.index[url] = soup.get_text().
Indexed(ix, u, t) == Store(ix, u, t)

\* response = requests.get(url); soup = BeautifulSoup(response.text);
\* self.index[url] = soup.get_text()        (on a site of `site` anchors)
Fetch(t, site) ==
    /\ Running(t)
    /\ Top(t).pc = "fetch"
    /\ \E r \in Outcomes(Top(t).url, site) :
         /\ fetched' = Append(fetched, [url |-> Top(t).url, status |-> r.status])
         /\ anchors' = anchors + Len(r.links)
         /\ IF r.kind = "raise"
            THEN /\ stack' = SetTop(t, [Top(t) EXCEPT !.pc = "except"])
                 /\ UNCHANGED index
            ELSE /\ index' = Indexed(index, Top(t).url, r.text)
                 /\ stack' = SetTop(t, [Top(t) EXCEPT !.pc = "links",
                                                       !.links = r.links, !.i = 1])
    /\ UNCHANGED <<visited, call, out, result>>

\* The test left out: every resolved link is followed.
InScopeAlways(f, target) == TRUE

\* if href.startswith(base_url or url)
InScope(f, target) == startswith(target, ScopeBase(f))

\* The loop without the recursive call: every link is passed over.
LinkPassedOver(t) ==
    /\ Running(t)
    /\ Top(t).pc = "links"
    /\ IF Top(t).i > Len(Top(t).links)
       THEN Return(t, "none")
       ELSE stack' = SetTop(t, [Top(t) EXCEPT !.i = @ + 1]) /\ UNCHANGED call
    /\ UNCHANGED <<visited, index, fetched, anchors, out, result>>

\* One turn of `for link in soup.find_all('a')`, or the end of the loop.
Link(t) ==
    /\ Running(t)
    /\ Top(t).pc = "links"
    /\ LET f == Top(t)
           href == f.links[f.i]
           next == [f EXCEPT !.i = f.i + 1]
       IN  IF f.i > Len(f.links)
           THEN Return(t, "none")
           ELSE /\ UNCHANGED call
                /\ IF href = <<>>
                   THEN stack' = SetTop(t, next)
                   ELSE IF urljoinRaises(href)
                   THEN stack' = SetTop(t, [f EXCEPT !.pc = "except"])
                   ELSE LET target == urljoin(ScopeBase(f), href)
                        IN  IF InScope(f, target)
                            THEN stack' = [stack EXCEPT ![t] =
                                    Append(SubSeq(@, 1, Len(@) - 1) \o <<next>>,
                                           Frame(target, ScopeBase(f)))]
                            ELSE stack' = SetTop(t, next)
    /\ UNCHANGED <<visited, index, fetched, anchors, out, result>>

\* except Exception as e: print(f"Error crawling {url}: {e}")
Except(t) ==
    /\ Running(t)
    /\ Top(t).pc = "except"
    /\ out' = Append(out, Top(t).url)
    /\ Return(t, HandlerOutcome("error"))
    /\ UNCHANGED <<visited, index, fetched, anchors, result>>

Step(t) == Check(t) \/ Add(t) \/ Fetch(t, MaxLinks) \/ Link(t) \/ Except(t)

---------------------------------------------------------------------------
(* search                                                                  *)

Alphabet == {"a", "A", "b", "+"}

Backslash == "\\"

\* \w: letters, digits and the underscore.
IsWord(c) == c \in {"a", "A", "b"}

\* re.IGNORECASE compares characters with their case folded.
Fold(c) == IF c = "A" THEN "a" ELSE c

Texts == SeqsUpTo(Alphabet, MaxText)

Keywords == SeqsUpTo(Alphabet, MaxKeyword)

\* re.escape(keyword): a backslash before every character that is special
\* in a pattern.
RECURSIVE escape(_)
escape(kw) ==
    IF kw = <<>> THEN <<>>
    ELSE (IF IsWord(Head(kw)) THEN <<Head(kw)>> ELSE <<Backslash, Head(kw)>>)
         \o escape(Tail(kw))

\* r'\b' + re.escape(keyword) + r'\b'
Pattern(kw) == <<Backslash, "b">> \o escape(kw) \o <<Backslash, "b">>

WordBoundary == [t |-> "boundary", c |-> "", plus |-> FALSE]

Literal(c) == [t |-> "literal", c |-> c, plus |-> FALSE]

\* re's reading of a pattern: \b is the word-boundary assertion, a backslash
\* before any other character makes it a literal, a bare + repeats the
\* literal before it, and any other character is a literal.  A + with
\* nothing to repeat, or a trailing backslash, is re.error.
RECURSIVE Compile(_, _)
Compile(p, atoms) ==
    IF p = <<>> THEN [ok |-> TRUE, atoms |-> atoms]
    ELSE IF Head(p) = Backslash
    THEN IF Len(p) < 2 THEN [ok |-> FALSE, atoms |-> <<>>]
         ELSE Compile(Tail(Tail(p)),
                      Append(atoms, IF p[2] = "b" THEN WordBoundary ELSE Literal(p[2])))
    ELSE IF Head(p) = "+"
    THEN IF atoms = <<>> \/ atoms[Len(atoms)].t # "literal" \/ atoms[Len(atoms)].plus
         THEN [ok |-> FALSE, atoms |-> <<>>]
         ELSE Compile(Tail(p), [atoms EXCEPT ![Len(atoms)].plus = TRUE])
    ELSE Compile(Tail(p), Append(atoms, Literal(Head(p))))

\* Whether the character at position k of text is a word character; there is
\* none before the first or after the last.
WordAt(text, k) == k \in 1..Len(text) /\ IsWord(text[k])

\* \b after the first p characters: exactly one side is a word character.
Boundary(text, p) == WordAt(text, p) # WordAt(text, p + 1)

\* The positions at which a match of atoms that starts after the first p
\* characters of text can end.
RECURSIVE MatchEnds(_, _, _)
MatchEnds(atoms, text, p) ==
    IF atoms = <<>> THEN {p}
    ELSE LET a == Head(atoms)
             same(k) == k \in 1..Len(text) /\ Fold(text[k]) = Fold(a.c)
             runs == {q \in (p + 1)..Len(text) :
                        /\ \A k \in (p + 1)..q : same(k)
                        /\ (a.plus \/ q = p + 1)}
         IN  IF a.t = "boundary"
             THEN IF Boundary(text, p) THEN MatchEnds(Tail(atoms), text, p) ELSE {}
             ELSE UNION {MatchEnds(Tail(atoms), text, q) : q \in runs}

\* re.search(pattern, text, re.IGNORECASE) is not None
re_search(atoms, text) == \E p \in 0..Len(text) : MatchEnds(atoms, text, p) # {}

\* The keyword put into the pattern as it is, without re.escape.
SearchPatternUnescaped(kw) == <<Backslash, "b">> \o kw \o <<Backslash, "b">>

\* The pattern search builds from the keyword.
SearchPattern(kw) == Pattern(kw)

RECURSIVE Matching(_, _)
Matching(ix, atoms) ==
    IF ix = <<>> THEN <<>>
    ELSE (IF re_search(atoms, Head(ix).text) THEN <<Head(ix).url>> ELSE <<>>)
         \o Matching(Tail(ix), atoms)

\* search(keyword): the URLs of the matching entries in the dict's order;
\* re.error leaves the loop at its first turn, if there is one.
search(ix, kw) ==
    LET compiled == Compile(SearchPattern(kw), <<>>)
    IN  IF ix # <<>> /\ ~compiled.ok
        THEN [kind |-> "error", urls |-> <<>>, keyword |-> kw]
        ELSE [kind |-> "returned", urls |-> Matching(ix, compiled.atoms), keyword |-> kw]

\* search reads the index and changes nothing of the crawler, so one call
\* in a behaviour stands for every call.
Search(kw) ==
    /\ \A t \in Threads : ~Running(t)
    /\ result.kind = "none"
    /\ result' = search(index, kw)
    /\ UNCHANGED <<visited, index, stack, call, fetched, anchors, out>>

---------------------------------------------------------------------------

Init ==
    /\ visited = {}
    /\ index = <<>>
    /\ stack = [t \in Threads |-> <<>>]
    /\ call = [t \in Threads |-> [url |-> <<>>, base |-> NoBase, state |-> "idle", n |-> 0]]
    /\ fetched = <<>>
    /\ anchors = 0
    /\ out = <<>>
    /\ result = [kind |-> "none", urls |-> <<>>, keyword |-> <<>>]

\* One thread of control: the crawler as main.py uses it.
Next ==
    \/ \E url \in StartUrls, base \in StartBases : Call(1, url, base)
    \/ Check(1)
    \/ Add(1)
    \/ Fetch(1, MaxLinks)
    \/ Link(1)
    \/ Except(1)

Spec == Init /\ [][Next]_vars

\* The same crawler on a site with one more anchor.
NextWide ==
    \/ \E url \in StartUrls, base \in StartBases : Call(1, url, base)
    \/ Check(1)
    \/ Add(1)
    \/ Fetch(1, MaxLinks + 1)
    \/ Link(1)
    \/ Except(1)

SpecWide == Init /\ [][NextWide]_vars

---------------------------------------------------------------------------
(* search on an index of up to two pages, whatever texts the crawls left.  *)

ShortTexts == {t \in Texts : Len(t) <= 1}

SearchIndexes ==
    {<<>>}
    \cup {<<[url |-> <<Site>>, text |-> t]>> : t \in Texts}
    \cup {<<[url |-> <<Site>>, text |-> t], [url |-> <<Site, PathA>>, text |-> s]>> :
            t \in Texts, s \in ShortTexts}

InitSearch ==
    /\ index \in SearchIndexes
    /\ visited = Keys(index)
    /\ fetched = [k \in 1..Len(index) |-> [url |-> index[k].url, status |-> "2xx"]]
    /\ stack = [t \in Threads |-> <<>>]
    /\ call = [t \in Threads |-> [url |-> <<>>, base |-> NoBase, state |-> "idle", n |-> 0]]
    /\ anchors = 0
    /\ out = <<>>
    /\ result = [kind |-> "none", urls |-> <<>>, keyword |-> <<>>]

NextSearch == \E kw \in Keywords : Search(kw)

SpecSearch == InitSearch /\ [][NextSearch]_vars

---------------------------------------------------------------------------
(* Vocabulary of the properties.                                           *)

Frames == UNION {{stack[t][k] : k \in 1..Len(stack[t])} : t \in Threads}

FetchedUrls == {fetched[k].url : k \in 1..Len(fetched)}

\* How many times requests.get was called with u.
FetchCount(u) == Cardinality({k \in 1..Len(fetched) : fetched[k].url = u})

\* The fetch of u raised, or was answered with an error status.
FetchFailed(u) == \E k \in 1..Len(fetched) : fetched[k].url = u /\ fetched[k].status # "2xx"

\* Link j of the page of activation f resolves, to a URL the code takes to
\* be in scope.
Follows(f, j) ==
    /\ j \in 1..Len(f.links)
    /\ f.links[j] # <<>>
    /\ ~urljoinRaises(f.links[j])
    /\ InScope(f, urljoin(ScopeBase(f), f.links[j]))

Target(f, j) == urljoin(ScopeBase(f), f.links[j])

\* The loop of activation f has taken link j (and the call it made, if any,
\* has begun).
Taken(f, j) == f.pc = "links" /\ j \in 1..(f.i - 1)

\* The innermost activations: the ones that are executing.
Tops == {Top(t) : t \in {th \in Threads : Running(th)}}

\* Activation f has run its loop to the end and is about to return.
AtLoopEnd(f) == f \in Tops /\ f.pc = "links" /\ f.i > Len(f.links)

\* Activation f is in its handler because resolving link f.i raised.
LinkRaised(f) == f.pc = "except" /\ f.i \in 1..Len(f.links)

---------------------------------------------------------------------------
(* C1: requests.get is called at most once with any one URL on a given     *)
(* WebCrawler, however many links point at the URL and however many times  *)
(* crawl is called.                                                        *)
C1_FetchedAtMostOnce == \A u \in FetchedUrls : FetchCount(u) = 1

\* A page carrying the same in-scope href twice has run its loop to the end,
\* and the target was fetched.
C1_Witness ==
    \E f \in Frames :
        /\ AtLoopEnd(f)
        /\ \E j, k \in 1..Len(f.links) :
              /\ j < k
              /\ Follows(f, j) /\ Follows(f, k)
              /\ Target(f, j) = Target(f, k)
              /\ Target(f, j) # f.url
              /\ Target(f, j) \in FetchedUrls

---------------------------------------------------------------------------
(* Termination of crawl: a measure that every step of a running crawl      *)
(* decreases, and cycles as the crawl meets them.                          *)

\* The URLs a crawl of this model can reach.
Universe == StartUrls \cup {urljoin(b, h) : b \in StartUrls \ {<<>>}, h \in Hrefs \ {<<BadHref>>}}

Weight(f) ==
    CASE f.pc = "check"  -> 1
      [] f.pc = "add"    -> 0
      [] f.pc = "fetch"  -> 2 * MaxLinks + 3
      [] f.pc = "links"  -> 2 * (Len(f.links) + 1 - f.i) + 2
      [] f.pc = "except" -> 1

RECURSIVE SumWeights(_)
SumWeights(st) == IF st = <<>> THEN 0 ELSE Weight(Head(st)) + SumWeights(Tail(st))

Measure ==
    (2 * MaxLinks + 4) * Cardinality(Universe \ visited) + SumWeights(stack[1])

\* Activation b has taken a link back to its caller a, or to itself.
ClosesCycle(a, b) ==
    \E j \in 1..Len(b.links) : Taken(b, j) /\ Follows(b, j) /\ Target(b, j) = a.url

CyclePairs ==
    {<<stack[1][k], stack[1][k + 1]>> : k \in 1..(Len(stack[1]) - 1)}
    \cup {<<stack[1][k], stack[1][k]>> : k \in 1..Len(stack[1])}

C2_CycleVisitedOnce ==
    \A p \in CyclePairs :
        ClosesCycle(p[1], p[2]) =>
            /\ {p[1].url, p[2].url} \subseteq visited
            /\ FetchCount(p[1].url) = 1
            /\ FetchCount(p[2].url) = 1

\* C2: every crawl returns (each step of a running crawl lowers Measure, and
\* a running crawl always has a step to take), and when the crawl meets a
\* self-link or a cycle A -> B -> A, A and B are in visited and were each
\* fetched exactly once.
C2_Terminates ==
    /\ [][Running(1) => Measure' < Measure]_vars
    /\ [](Measure \in Nat)
    /\ [](Running(1) => ENABLED Step(1))
    /\ [](visited \subseteq Universe)
    /\ []C2_CycleVisitedOnce

\* Page B, reached from page A, has taken its link back to A and run its
\* loop to the end.
C2_Witness ==
    \E k \in 1..(Len(stack[1]) - 1) :
        /\ stack[1][k].url # stack[1][k + 1].url
        /\ ClosesCycle(stack[1][k], stack[1][k + 1])
        /\ AtLoopEnd(stack[1][k + 1])

---------------------------------------------------------------------------
(* C3: a link that resolves to a URL of another origin (scheme and host)   *)
(* than the scope base never gets its target into visited or the index.    *)
C3_ScopeByOrigin ==
    \A f \in Frames : \A j \in 1..Len(f.links) :
        ( /\ Taken(f, j)
          /\ f.links[j] # <<>>
          /\ ~urljoinRaises(f.links[j])
          /\ Origin(Target(f, j)) # Origin(ScopeBase(f)) )
        => /\ Target(f, j) \notin visited
           /\ Target(f, j) \notin Keys(index)

---------------------------------------------------------------------------
\* Activation f is about to end: its loop is over, or it is in its handler.
Ending(f) == AtLoopEnd(f) \/ f.pc = "except"

\* C4: when a page A was fetched and links to in-scope B and C, and the
\* fetch of B failed, then as crawl(A) ends A is in the index, C was
\* fetched, and no exception leaves crawl.
C4_FailureIsolation ==
    /\ \A t \in Threads : call[t].state # "raised"
    /\ \A f \in Frames : \A j, k \in 1..Len(f.links) :
          ( /\ Ending(f)
            /\ ~FetchFailed(f.url)
            /\ Follows(f, j) /\ Follows(f, k)
            /\ j < f.i
            /\ Target(f, j) # f.url
            /\ FetchFailed(Target(f, j)) )
          => /\ f.url \in Keys(index)
             /\ Target(f, k) \in FetchedUrls

---------------------------------------------------------------------------
(* C6: every URL whose fetch returned a response has an entry in the       *)
(* index, whatever the text and the links of the response.                 *)
C6_FetchedIsIndexed ==
    \A k \in 1..Len(fetched) :
        fetched[k].status # "raised" => fetched[k].url \in Keys(index)

\* A crawl has returned, and a page with empty text and no links is indexed.
C6_Witness ==
    /\ call[1].state = "returned"
    /\ anchors = 0
    /\ \E k \in 1..Len(fetched) :
          /\ fetched[k].status = "2xx"
          /\ fetched[k].url \in Keys(index)
          /\ TextOf(index, fetched[k].url) = <<>>

---------------------------------------------------------------------------
(* C7: every URL whose fetch failed (raised, or was answered with an error *)
(* status) is in visited and has no entry in the index.                    *)
C7_FailedNotIndexed ==
    \A u \in FetchedUrls :
        FetchFailed(u) => u \in visited /\ u \notin Keys(index)

---------------------------------------------------------------------------
(* C10: when resolving one link of a page raises, the later links of the   *)
(* page are still taken: those in scope have been crawled by the time the  *)
(* activation ends.                                                        *)
C10_LaterLinksCrawled ==
    \A f \in Frames :
        LinkRaised(f) =>
            \A j \in (f.i + 1)..Len(f.links) :
                Follows(f, j) => Target(f, j) \in visited

---------------------------------------------------------------------------
(* Vocabulary of the search properties.                                    *)

\* kw occurs in text after the first p characters, letter case aside.
OccursAt(kw, text, p) ==
    /\ p + Len(kw) <= Len(text)
    /\ \A k \in 1..Len(kw) : Fold(text[p + k]) = Fold(kw[k])

Contains(text, kw) == \E p \in 0..Len(text) : OccursAt(kw, text, p)

\* kw occurs in text with no word character next to it on either side.
WholeWord(text, kw) ==
    \E p \in 0..Len(text) :
        /\ OccursAt(kw, text, p)
        /\ ~WordAt(text, p)
        /\ ~WordAt(text, p + Len(kw) + 1)

\* The URLs of the entries whose text has kw as a whole word, in the
\* order of the index.
RECURSIVE WholeWordUrls(_, _)
WholeWordUrls(ix, kw) ==
    IF ix = <<>> THEN <<>>
    ELSE (IF WholeWord(Head(ix).text, kw) THEN <<Head(ix).url>> ELSE <<>>)
         \o WholeWordUrls(Tail(ix), kw)

Searched == result.kind # "none"

---------------------------------------------------------------------------
(* C5: search with a non-empty keyword returns exactly the URLs whose text *)
(* has the keyword, letter case aside, with no word character next to it.  *)
C5_WholeWordSearch ==
    (Searched /\ result.keyword # <<>>) =>
        /\ result.kind = "returned"
        /\ result.urls = WholeWordUrls(index, result.keyword)

---------------------------------------------------------------------------
(* C8: search with the empty keyword returns no URL, or fails.             *)
C8_EmptyKeywordMatchesNothing ==
    (Searched /\ result.keyword = <<>>) =>
        (result.kind = "error" \/ result.urls = <<>>)

---------------------------------------------------------------------------
(* C9: on an empty index, and on an index none of whose texts contains the *)
(* keyword (letter case aside), search returns the empty sequence and does *)
(* not raise.                                                              *)
C9_NoMatchIsEmpty ==
    (Searched /\ \A k \in 1..Len(index) : ~Contains(index[k].text, result.keyword)) =>
        /\ result.kind = "returned"
        /\ result.urls = <<>>

\* A search on a two-page index, neither text containing the keyword.
C9_Witness ==
    /\ Searched
    /\ Len(index) = 2
    /\ result.keyword # <<>>
    /\ \A k \in 1..Len(index) :
          index[k].text # <<>> /\ ~Contains(index[k].text, result.keyword)
    /\ result = [kind |-> "returned", urls |-> <<>>, keyword |-> result.keyword]

---------------------------------------------------------------------------
\* The page-count ceilings a caller may want to put on a crawl.  crawl takes
\* url and base_url and nothing else, so it runs the same under every one.
Ceilings == 1..MaxLinks

\* C11: under a caller's ceiling of c pages, once c URLs are in visited no
\* further URL is added to it (the fetches under way complete): the crawl
\* of a fresh crawler never has more than c URLs in visited.
C11_CeilingHalts ==
    \A c \in Ceilings :
        call[1].n = 1 => Cardinality(visited) <= c

---------------------------------------------------------------------------
\* The place of u in the order of the fetches.
FetchPos(u) == CHOOSE k \in 1..Len(fetched) : fetched[k].url = u

\* The call that activation f made for its link j has ended.
CallEnded(f, j) == j < f.i - 1 \/ (j = f.i - 1 /\ f \in Tops)

\* C12: the fetches of a crawl are in depth-first pre-order, links in
\* document order: each activation below another one is the call for the
\* link its caller has just taken, a page is fetched before the pages below
\* it, the target of link k is fetched by the time the call for it ends
\* (so before link k + 1 is looked at), and as an activation ends the target
\* of every in-scope link of its page has been fetched.
C12_DepthFirstPreOrder ==
    /\ \A k \in 1..(Len(stack[1]) - 1) :
          LET f == stack[1][k]
              g == stack[1][k + 1]
          IN  /\ f.pc = "links"
              /\ Follows(f, f.i - 1)
              /\ g.url = Target(f, f.i - 1)
              /\ (g.pc \in {"links", "except"} /\ g.url # f.url)
                    => FetchPos(f.url) < FetchPos(g.url)
    /\ \A f \in Frames : \A j \in 1..Len(f.links) :
          /\ (Follows(f, j) /\ CallEnded(f, j)) => Target(f, j) \in FetchedUrls
          /\ (Ending(f) /\ Follows(f, j)) => Target(f, j) \in FetchedUrls

---------------------------------------------------------------------------
\* C13: across the crawl calls on one WebCrawler no step removes an entry
\* of the index or changes its text, and no step removes a URL from
\* visited.
C13_AppendOnly ==
    [][ /\ visited \subseteq visited'
        /\ \A u \in Keys(index) :
              /\ u \in Keys(index')
              /\ TextOf(index', u) = TextOf(index, u) ]_vars

\* The second crawl call has returned after storing an entry of its own
\* next to the entry the first call stored.
C13_Witness ==
    /\ call[1].n = 2
    /\ call[1].state = "returned"
    /\ anchors = 0
    /\ Len(index) = 2
    /\ index[2].url = call[1].url
    /\ visited = Keys(index)

---------------------------------------------------------------------------
\* C14: a call of crawl with a URL that is in visited, whatever its
\* base_url, returns in its first step: nothing is fetched or reported,
\* visited and the index are as they were, and the caller, if any, is
\* where it was.
C14_VisitedIsNoOp ==
    [][ \A t \in Threads :
          (Running(t) /\ Top(t).pc = "check" /\ Top(t).url \in visited) =>
              /\ stack'[t] = SubSeq(stack[t], 1, Len(stack[t]) - 1)
              /\ UNCHANGED <<visited, index, fetched, out>>
              /\ call'[t].state # "raised" ]_vars

\* A second call, with the URL the first call crawled and with a base_url,
\* has returned, and there was the one fetch of the first call.
C14_Witness ==
    /\ call[1].n = 2
    /\ call[1].state = "returned"
    /\ call[1].base # NoBase
    /\ call[1].url \in visited
    /\ Len(fetched) = 1
    /\ fetched[1].url = call[1].url

---------------------------------------------------------------------------
\* C15: in a top-level crawl(start) without base_url, every recursive call
\* receives base_url = start, every activation resolves and scope-tests
\* against start, and the URL of every recursive call is its caller's link
\* resolved against start and has start as a prefix.
C15_ScopeBaseFixed ==
    \A t \in Threads :
        (Running(t) /\ call[t].base = NoBase) =>
            LET start == call[t].url
            IN  /\ \A k \in 2..Len(stack[t]) : stack[t][k].base = start
                /\ \A k \in 1..Len(stack[t]) : ScopeBase(stack[t][k]) = start
                /\ \A k \in 1..(Len(stack[t]) - 1) :
                      LET f == stack[t][k]
                          g == stack[t][k + 1]
                      IN  /\ g.url = urljoin(start, f.links[f.i - 1])
                          /\ startswith(g.url, start)

\* Two levels down: the start page linked to a page on another host, and
\* that page's link /a was resolved against start, not against the page.
C15_Witness ==
    /\ call[1].base = NoBase
    /\ call[1].url = <<Site>>
    /\ Len(stack[1]) = 3
    /\ stack[1][2].url = <<Site, Evil>>
    /\ stack[1][2].links[stack[1][2].i - 1] = <<PathA>>
    /\ stack[1][3].url = <<Site, PathA>>
    /\ stack[1][3].url # urljoin(stack[1][2].url, <<PathA>>)

---------------------------------------------------------------------------
\* C16: in crawl(start) on a fresh crawler, an activation whose loop has
\* run to the end (so no link resolution raised in it) leaves the target
\* of every in-scope link of its page in visited, at every depth; visited
\* only grows, so when crawl returns every URL reachable from start by
\* such links is in visited, and so is start.
C16_ReachableVisited ==
    (call[1].n = 1 /\ call[1].base = NoBase) =>
        /\ call[1].state = "returned" => call[1].url \in visited
        /\ \A f \in Frames :
              AtLoopEnd(f) =>
                  \A j \in 1..Len(f.links) :
                      Follows(f, j) => Target(f, j) \in visited

\* crawl(start) is about to return with nothing reported: the start page's
\* one link was /a, and /b, linked from the page /a, is in visited too.
C16_Witness ==
    /\ call[1].n = 1
    /\ call[1].base = NoBase
    /\ call[1].url = <<Site>>
    /\ Len(stack[1]) = 1
    /\ AtLoopEnd(Top(1))
    /\ Top(1).links = << <<PathA>> >>
    /\ {<<Site, PathA>>, <<Site, PathB>>} \subseteq visited
    /\ out = <<>>

---------------------------------------------------------------------------
\* How many times the handler reported u.
ReportCount(u) == Cardinality({k \in 1..Len(out) : out[k] = u})

\* C17: no URL is reported twice; once the crawl calls have ended, every
\* URL whose fetch failed (raised, or was answered with an error status)
\* has been reported once; an activation whose fetch succeeded and whose
\* loop ran to the end has reported nothing; and no exception leaves crawl.
C17_FailedFetchReportedOnce ==
    /\ \A u \in FetchedUrls : ReportCount(u) <= 1
    /\ (\A t \in Threads : ~Running(t)) =>
          \A u \in FetchedUrls : FetchFailed(u) => ReportCount(u) = 1
    /\ \A f \in Frames :
          (AtLoopEnd(f) /\ ~FetchFailed(f.url)) => ReportCount(f.url) = 0
    /\ \A t \in Threads : call[t].state # "raised"

---------------------------------------------------------------------------
(* Two threads, each calling crawl once on the one WebCrawler.  Nothing in *)
(* crawl takes a lock, so the threads' steps interleave freely, between    *)
(* the test of line 13 and the add of line 15 as anywhere else.            *)

\* Thread t's one call, crawler.crawl(url).
CallOnce(t, url) == call[t].n = 0 /\ Call(t, url, NoBase)

NextThreads ==
    \E t \in Threads :
        \/ \E url \in StartUrls : CallOnce(t, url)
        \/ Check(t)
        \/ Add(t)
        \/ Fetch(t, MaxLinks)
        \/ Link(t)
        \/ Except(t)

SpecThreads == Init /\ [][NextThreads]_vars


\* C18: with two threads calling crawl on the one WebCrawler, the test and
\* the add act as one atomic step: two activations are never both past the
\* test for the same URL, and no URL is fetched twice.
C18_AtomicCheckAndSet ==
    /\ \A j, k \in 1..Len(fetched) : fetched[j].url = fetched[k].url => j = k
    /\ \A f \in {stack[1][k] : k \in 1..Len(stack[1])} :
       \A g \in {stack[2][k] : k \in 1..Len(stack[2])} :
          f.url = g.url => (f.pc = "check" \/ g.pc = "check")

---------------------------------------------------------------------------
\* C19: whatever crawl calls were made and however far they have got,
\* every key of the index is in visited.
C19_IndexedAreVisited == Keys(index) \subseteq visited

\* The crawl calls have ended with pages indexed and, in visited, a URL
\* that has no entry (its fetch raised).
C19_Witness ==
    /\ \A t \in Threads : ~Running(t)
    /\ Cardinality(Keys(index)) >= 2
    /\ \E u \in visited : u \notin Keys(index)

---------------------------------------------------------------------------
\* C20: throughout crawl(start) on a fresh crawler, and after it, every
\* URL in visited, and so every key of the index, is start or has start as
\* a prefix.
C20_VisitedUnderStart ==
    (call[1].n = 1 /\ call[1].base = NoBase) =>
        /\ \A u \in visited : startswith(u, call[1].url)
        /\ \A u \in Keys(index) : startswith(u, call[1].url)

\* crawl(start) has returned with two URLs other than start indexed.
C20_Witness ==
    /\ call[1].n = 1
    /\ call[1].base = NoBase
    /\ call[1].state = "returned"
    /\ call[1].url = <<Site>>
    /\ {<<Site, PathA>>, <<Site, Evil>>} \subseteq Keys(index)

=============================================================================
